---- MODULE Spec2Model ----
(***************************************************************************)
(* A model of simulation.c, the set-associative cache simulation:          *)
(* read_action_from_file (the trace reader), line_from_address (the        *)
(* address decomposition), in_cache (lookup), add_to_cache (insert and     *)
(* replacement) and execute_mem (the replay loop and its counters).        *)
(*                                                                         *)
(* Numbers are TLC integers (below 2^31), so addresses are drawn from a    *)
(* range far below the width of unsigned long; no shift, sum or counter of *)
(* the model reaches the point where the C types would wrap.               *)
(***************************************************************************)
EXTENDS Integers, Sequences, FiniteSets, TLC

\* ------------------------------------------------------------------------
\* Configuration: the macros of config.h, with the values of the example in
\* simulation.c:24-33 (block of 128 bytes, 7 offset bits, 2 sets, 1 index
\* bit). ASSOCIATIVITY is 4 in that example; the model takes a smaller
\* value, as a bound. PREFETCHING is the variable prefetching.
\* ------------------------------------------------------------------------
BLOCKS_SIZE_N == 7

BLOCKS_SIZE == 128

NB_BLOCKS_N == 1

NB_BLOCKS == 2

ASSOCIATIVITY == 2

\* ------------------------------------------------------------------------
\* Bounds of the model.
\* ------------------------------------------------------------------------
\* the largest tag of a trace address
MaxTag == 2

\* the largest number of records of a trace
MaxLen == 4

\* time(NULL) returns values in 1..MaxClock
MaxClock == 2

\* ------------------------------------------------------------------------
\* C integer operators on naturals.
\* ------------------------------------------------------------------------
RECURSIVE Pow2(_)
Pow2(n) == IF n = 0 THEN 1 ELSE 2 * Pow2(n - 1)

\* a << n
ShiftL(a, n) == a * Pow2(n)

\* a >> n
ShiftR(a, n) == a \div Pow2(n)

\* a & b, bit by bit
RECURSIVE BitAnd(_, _)
BitAnd(a, b) ==
  IF a = 0 \/ b = 0 THEN 0
  ELSE (IF a % 2 = 1 /\ b % 2 = 1 THEN 1 ELSE 0) + 2 * BitAnd(a \div 2, b \div 2)

\* a | b, bit by bit
RECURSIVE BitOr(_, _)
BitOr(a, b) ==
  IF a = 0 THEN b
  ELSE IF b = 0 THEN a
  ELSE (IF a % 2 = 1 \/ b % 2 = 1 THEN 1 ELSE 0) + 2 * BitOr(a \div 2, b \div 2)

\* ------------------------------------------------------------------------
\* struct line, struct action, the store.
\* ------------------------------------------------------------------------
Sets == 0 .. NB_BLOCKS - 1

Ways == 0 .. ASSOCIATIVITY - 1

\* a line as calloc leaves it (buff is never read and is left out)
ZeroLine == [index |-> 0, offset |-> 0, tag |-> 0, last_access |-> 0]

\* the store after the allocation loop of execute_mem
FreshCache == [s \in Sets |-> [w \in Ways |-> ZeroLine]]

\* the rw of the record that ends the actions array ('\0')
NUL == "NUL"

\* decompose with the tag shifted by the offset bits only: the index bits
\* stay in the tag
decompose_tagshift(address) ==
  [offset |-> BitAnd(address, ShiftL(1, BLOCKS_SIZE_N) - 1),
   index |-> BitAnd(ShiftR(address, BLOCKS_SIZE_N), ShiftL(1, NB_BLOCKS_N) - 1),
   tag |-> ShiftR(address, BLOCKS_SIZE_N)]

\* the three fields line_from_address computes from the address (lines 122-124)
decompose(address) ==
  [offset |-> BitAnd(address, ShiftL(1, BLOCKS_SIZE_N) - 1),
   index |-> BitAnd(ShiftR(address, BLOCKS_SIZE_N), ShiftL(1, NB_BLOCKS_N) - 1),
   tag |-> ShiftR(address, BLOCKS_SIZE_N + NB_BLOCKS_N)]

\* the addresses of the model: those of the blocks of tags 0..MaxTag + 1
AddressRange == 0 .. ShiftL(MaxTag + 2, BLOCKS_SIZE_N + NB_BLOCKS_N) - 1

\* decompose, tabulated over the addresses of the model
Decomposed == [a \in AddressRange |-> decompose(a)]

\* line_from_address(address), t being what time(NULL) returns (line 125)
line_from_address(address, t) ==
  [offset |-> Decomposed[address].offset,
   index |-> Decomposed[address].index,
   tag |-> Decomposed[address].tag,
   last_access |-> t]

\* in_cache(c, l): some line of the set l.index carries the tag of l
in_cache(cc, l) == \E w \in Ways : cc[l.index][w].tag = l.tag

\* The scan of add_to_cache from position w on. The result is the position
\* the line is written to: the first position whose tag is 0, else `oldest`
\* as the loop leaves it. `oldest` is assigned only when a line is strictly
\* older than oldest_time; until then it holds what the caller passes.
RECURSIVE add_scan(_, _, _, _)
add_scan(set, w, oldest_time, oldest) ==
  IF w = ASSOCIATIVITY THEN oldest
  ELSE IF set[w].tag = 0 THEN w
  ELSE IF set[w].last_access < oldest_time
       THEN add_scan(set, w + 1, set[w].last_access, w)
       ELSE add_scan(set, w + 1, oldest_time, oldest)

\* The position add_to_cache(c, l) writes. t is what time(NULL) returns at
\* line 152; garbage is the value the uninitialised local `oldest` holds on
\* entry: a position of the set, or ASSOCIATIVITY for any value outside it.
add_position(cc, l, t, garbage) == add_scan(cc[l.index], 0, t, garbage)

\* What the write c[l.index][oldest] = l of line 168 does when `oldest` is
\* outside the set: it goes past the calloc'd array of the set. It meets no
\* line of the store ("none"), or hits memory the process may not write and
\* the process dies ("fault"), or lands on a line of another set ("line"),
\* which then holds what the write left there: some tag and last_access,
\* here a tag of 1 .. MaxTag and the last_access 0 (index and offset of a
\* stored line are never read; they are left at 0).
NoStray == [kind |-> "none", set |-> 0, way |-> 0, tag |-> 0, last_access |-> 0]

Stray ==
  {NoStray, [NoStray EXCEPT !.kind = "fault"]}
  \cup [kind : {"line"}, set : Sets, way : Ways, tag : 1 .. MaxTag,
        last_access : {0}]

\* the stray writes of a call on the set s: the lines hit are of other sets
StrayFrom == [s \in Sets |-> {u \in Stray : u.kind = "line" => u.set # s}]

\* add_to_cache(c, l) writes outside the set and the process dies
add_faults(cc, l, t, garbage, stray) ==
  add_position(cc, l, t, garbage) \notin Ways /\ stray.kind = "fault"

\* The store after add_to_cache(c, l). With `oldest` unassigned the write
\* goes to c[l.index][garbage]: to any line of the set, or outside the set,
\* with the effect stray.
add_to_cache(cc, l, t, garbage, stray) ==
  LET p == add_position(cc, l, t, garbage)
  IN IF p \in Ways THEN [cc EXCEPT ![l.index][p] = l]
     ELSE IF stray.kind = "line"
          THEN [cc EXCEPT ![stray.set][stray.way] =
                  [index |-> 0, offset |-> 0, tag |-> stray.tag,
                   last_access |-> stray.last_access]]
          ELSE cc

\* ------------------------------------------------------------------------
\* One iteration of the replay loop of execute_mem (lines 197-210) on the
\* record act, from the store cc and the counters h and m. pf is
\* PREFETCHING; t[1..4] are what the four calls of time(NULL) return, in
\* order (line_from_address, add_to_cache, and the same two for the
\* prefetch); g[1], g[2] are the values `oldest` holds on entry of the two
\* calls of add_to_cache and u[1], u[2] what their writes outside the set
\* do. The result carries the new store and counters, the last clock value
\* read, and what the iteration did: hit, the lines l1 and l2, the
\* positions w1 and w2 written (NoPos: no call), the store c1 between the
\* two inserts, lookup2 (the prefetch lookup's result), and fault: the
\* process died in add_to_cache, before the misses++ of lines 206 and 209.
\* ------------------------------------------------------------------------
NoPos == 0 - 1

\* a hit that refreshes the line found: its last_access becomes that of l1
hit_record_refresh(cc, h, m, l1) ==
  [c |-> [cc EXCEPT ![l1.index] =
            [w \in Ways |-> IF cc[l1.index][w].tag = l1.tag
                            THEN [cc[l1.index][w] EXCEPT
                                    !.last_access = l1.last_access]
                            ELSE cc[l1.index][w]]],
   hits |-> h + 1, misses |-> m, now |-> l1.last_access,
   hit |-> TRUE, l1 |-> l1, w1 |-> NoPos, c1 |-> cc,
   lookup2 |-> "none", l2 |-> l1, w2 |-> NoPos, fault |-> FALSE]

\* a hit that is counted as a miss as well
hit_record_miss(cc, h, m, l1) ==
  [c |-> cc, hits |-> h + 1, misses |-> m + 1, now |-> l1.last_access,
   hit |-> TRUE, l1 |-> l1, w1 |-> NoPos, c1 |-> cc,
   lookup2 |-> "none", l2 |-> l1, w2 |-> NoPos, fault |-> FALSE]

\* lines 198-199: in_cache(c, l1) returned 1
hit_record(cc, h, m, l1) ==
  [c |-> cc, hits |-> h + 1, misses |-> m, now |-> l1.last_access,
   hit |-> TRUE, l1 |-> l1, w1 |-> NoPos, c1 |-> cc,
   lookup2 |-> "none", l2 |-> l1, w2 |-> NoPos, fault |-> FALSE]

\* execute_record without write-allocate: a W record that misses is counted
\* and its line is not inserted
execute_record_nowalloc(cc, h, m, act, pf, t, g, u) ==
  LET l1 == line_from_address(act.address, t[1])
  IN IF in_cache(cc, l1)
     THEN hit_record(cc, h, m, l1)
     ELSE LET w1 == IF act.rw = "W" THEN NoPos
                    ELSE add_position(cc, l1, t[2], g[1])
              c1 == IF act.rw = "W" THEN cc
                    ELSE add_to_cache(cc, l1, t[2], g[1], u[1])
          IN IF w1 # NoPos /\ add_faults(cc, l1, t[2], g[1], u[1])
             THEN [c |-> cc, hits |-> h, misses |-> m, now |-> t[2],
                   hit |-> FALSE, l1 |-> l1, w1 |-> w1, c1 |-> cc,
                   lookup2 |-> "none", l2 |-> l1, w2 |-> NoPos, fault |-> TRUE]
             ELSE IF pf
             THEN LET l2 == line_from_address(act.address + BLOCKS_SIZE, t[3])
                  IN IF ~in_cache(c1, l2)
                     THEN IF add_faults(c1, l2, t[4], g[2], u[2])
                          THEN [c |-> c1, hits |-> h, misses |-> m, now |-> t[4],
                                hit |-> FALSE, l1 |-> l1, w1 |-> w1, c1 |-> c1,
                                lookup2 |-> "absent", l2 |-> l2,
                                w2 |-> add_position(c1, l2, t[4], g[2]),
                                fault |-> TRUE]
                          ELSE [c |-> add_to_cache(c1, l2, t[4], g[2], u[2]),
                                hits |-> h, misses |-> m + 2, now |-> t[4],
                                hit |-> FALSE, l1 |-> l1, w1 |-> w1, c1 |-> c1,
                                lookup2 |-> "absent", l2 |-> l2,
                                w2 |-> add_position(c1, l2, t[4], g[2]),
                                fault |-> FALSE]
                     ELSE [c |-> c1, hits |-> h, misses |-> m + 1, now |-> t[3],
                           hit |-> FALSE, l1 |-> l1, w1 |-> w1, c1 |-> c1,
                           lookup2 |-> "present", l2 |-> l2, w2 |-> NoPos,
                           fault |-> FALSE]
             ELSE [c |-> c1, hits |-> h, misses |-> m + 1, now |-> t[2],
                   hit |-> FALSE, l1 |-> l1, w1 |-> w1, c1 |-> c1,
                   lookup2 |-> "none", l2 |-> l1, w2 |-> NoPos, fault |-> FALSE]

\* lines 197-210
execute_record(cc, h, m, act, pf, t, g, u) ==
  LET l1 == line_from_address(act.address, t[1])
  IN IF in_cache(cc, l1)
     THEN hit_record(cc, h, m, l1)
     ELSE LET w1 == add_position(cc, l1, t[2], g[1])
              c1 == add_to_cache(cc, l1, t[2], g[1], u[1])
          IN IF add_faults(cc, l1, t[2], g[1], u[1])
             THEN [c |-> cc, hits |-> h, misses |-> m, now |-> t[2],
                   hit |-> FALSE, l1 |-> l1, w1 |-> w1, c1 |-> cc,
                   lookup2 |-> "none", l2 |-> l1, w2 |-> NoPos, fault |-> TRUE]
             ELSE IF pf
             THEN LET l2 == line_from_address(act.address + BLOCKS_SIZE, t[3])
                  IN IF ~in_cache(c1, l2)
                     THEN IF add_faults(c1, l2, t[4], g[2], u[2])
                          THEN [c |-> c1, hits |-> h, misses |-> m, now |-> t[4],
                                hit |-> FALSE, l1 |-> l1, w1 |-> w1, c1 |-> c1,
                                lookup2 |-> "absent", l2 |-> l2,
                                w2 |-> add_position(c1, l2, t[4], g[2]),
                                fault |-> TRUE]
                          ELSE [c |-> add_to_cache(c1, l2, t[4], g[2], u[2]),
                                hits |-> h, misses |-> m + 2, now |-> t[4],
                                hit |-> FALSE, l1 |-> l1, w1 |-> w1, c1 |-> c1,
                                lookup2 |-> "absent", l2 |-> l2,
                                w2 |-> add_position(c1, l2, t[4], g[2]),
                                fault |-> FALSE]
                     ELSE [c |-> c1, hits |-> h, misses |-> m + 1, now |-> t[3],
                           hit |-> FALSE, l1 |-> l1, w1 |-> w1, c1 |-> c1,
                           lookup2 |-> "present", l2 |-> l2, w2 |-> NoPos,
                           fault |-> FALSE]
             ELSE [c |-> c1, hits |-> h, misses |-> m + 1, now |-> t[2],
                   hit |-> FALSE, l1 |-> l1, w1 |-> w1, c1 |-> c1,
                   lookup2 |-> "none", l2 |-> l1, w2 |-> NoPos, fault |-> FALSE]

\* ------------------------------------------------------------------------
\* State.
\* ------------------------------------------------------------------------
VARIABLES
  \* execute_mem
  prefetching,  \* PREFETCHING of config.h
  actions,      \* the argument of execute_mem: records 0..n, the last one NUL
  i,            \* the loop index of execute_mem
  c,            \* the store
  hits,
  misses,
  now,          \* the last value time(NULL) returned
  pc,           \* "loop": in the replay loop; "done": the report is printed;
                \* "fault": the process died
  report,       \* what printf printed: <<hits, misses>>
  log,          \* history: what each iteration did
  written,      \* history: the positions of each set that add_to_cache wrote
  kept,         \* history: the blocks accessed whose line was not written since
  \* a second run of execute_mem, side by side with the first (SpecLetters,
  \* SpecClocks)
  actions2, c2, hits2, misses2, now2, report2, log2,
  \* one call of line_from_address (SpecDecompose)
  lfa_pc,       \* "call" or "ret"
  lfa_address,  \* the argument
  lfa_l,        \* the struct line returned
  \* read_action_from_file (SpecRead)
  file,            \* the lines of the file, as fopen finds it
  f,               \* the stream: the characters not read yet
  rw,              \* the local rw
  address,         \* the local address: [hi, lo], the two halves of the long
  r_actions,       \* the records stored in the array `actions`, in order
  current_action,
  nb_actions,
  r_pc             \* "scan": in the loop; "done": returned

execVars == <<prefetching, actions, i, c, hits, misses, now, pc, report, log,
              written, kept>>

pairVars == <<actions2, c2, hits2, misses2, now2, report2, log2>>

lfaVars == <<lfa_pc, lfa_address, lfa_l>>

readVars == <<file, f, rw, address, r_actions, current_action, nb_actions, r_pc>>

\* ------------------------------------------------------------------------
\* Inputs.
\* ------------------------------------------------------------------------
\* the address of the first byte of the block of (tag, index)
BlockAddress(tag, index) ==
  BitOr(ShiftL(tag, BLOCKS_SIZE_N + NB_BLOCKS_N), ShiftL(index, BLOCKS_SIZE_N))

Addresses == {BlockAddress(tag, index) : tag \in 0 .. MaxTag, index \in 0 .. 1}

\* the letter of the records of address a in the traces of Spec: both letters
\* occur (execute_mem reads rw only to find the NUL record)
LetterOf(a) == IF ShiftR(a, BLOCKS_SIZE_N) % 2 = 0 THEN "R" ELSE "W"

Records == {[rw |-> LetterOf(a), address |-> a] : a \in Addresses}

\* the array read_action_from_file returns for the records of seq
ActionsOf(seq) ==
  [k \in 0 .. Len(seq) |->
     IF k < Len(seq) THEN seq[k + 1] ELSE [rw |-> NUL, address |-> 0]]

Traces == UNION {[1 .. n -> Records] : n \in 0 .. MaxLen}

\* the number of records of the array a
NbRecords(a) == Cardinality(DOMAIN a) - 1

Block(l) == <<l.index, l.tag>>

\* ------------------------------------------------------------------------
\* The clock and the uninitialised local of add_to_cache.
\* ------------------------------------------------------------------------
\* The calls of time(NULL) and of add_to_cache an iteration on act makes
\* after the first lookup: none on a hit, one of each on a miss without
\* PREFETCHING (the readings of calls that are not made are not drawn).
MissCalls(cc, act) == ~in_cache(cc, line_from_address(act.address, 0))

PrefetchCalls(cc, act, pf) == pf /\ MissCalls(cc, act)

\* The values `oldest` may hold on entry of add_to_cache(cc, l) when called
\* (time(NULL) returning t): any, when the scan ends without assigning it;
\* otherwise the value is never read and one stands for all.
Garbage(called, cc, l, t) ==
  IF called /\ add_position(cc, l, t, NoPos) = NoPos
  THEN 0 .. ASSOCIATIVITY
  ELSE {0}

\* the clock readings of a call made after the reading t, or t if not called
Clock(called, t) == IF called THEN t .. MaxClock ELSE {t}

\* what the write of a call on the set of l does when `oldest` holds g
StrayOf(g, l) == IF g \in Ways THEN {NoStray} ELSE StrayFrom[l.index]

\* the prefetch is reached: PREFETCHING, a miss, and the first add_to_cache
\* returned
SecondCalls(cc, act, pf, g1, u1) ==
  PrefetchCalls(cc, act, pf) /\ ~(g1 \notin Ways /\ u1.kind = "fault")

\* What one iteration on act may read: t[1..4] from the clock, which does
\* not run backwards, g[1..2] from the stack, and the effects u[1..2] of
\* the writes outside the set.
Readings(cc, act, pf, from) ==
  UNION {UNION {UNION {UNION {UNION {UNION {UNION {
    {[t |-> <<t1, t2, t3, t4>>, g |-> <<g1, g2>>, u |-> <<u1, u2>>] :
       u2 \in StrayOf(g2, line_from_address(act.address + BLOCKS_SIZE, t3))} :
    g2 \in Garbage(SecondCalls(cc, act, pf, g1, u1),
                   add_to_cache(cc, line_from_address(act.address, t1), t2, g1, u1),
                   line_from_address(act.address + BLOCKS_SIZE, t3), t4)} :
    t4 \in Clock(SecondCalls(cc, act, pf, g1, u1), t3)} :
    t3 \in Clock(SecondCalls(cc, act, pf, g1, u1), t2)} :
    u1 \in StrayOf(g1, line_from_address(act.address, t1))} :
    g1 \in Garbage(MissCalls(cc, act), cc, line_from_address(act.address, t1), t2)} :
    t2 \in Clock(MissCalls(cc, act), t1)} :
    t1 \in from .. MaxClock}

\* ------------------------------------------------------------------------
\* execute_mem.
\* ------------------------------------------------------------------------
\* lines 180-194: the counters, the store; the clock has some value
InitExec ==
  /\ i = 0
  /\ c = FreshCache
  /\ hits = 0
  /\ misses = 0
  /\ now = 1
  /\ pc = "loop"
  /\ report = <<>>
  /\ log = <<>>
  /\ written = [s \in Sets |-> {}]
  /\ kept = {}

\* no second run
InitNoPair ==
  /\ actions2 = <<>>
  /\ c2 = FreshCache
  /\ hits2 = 0
  /\ misses2 = 0
  /\ now2 = 1
  /\ report2 = <<>>
  /\ log2 = <<>>

\* no call of line_from_address on its own
InitNoLfa ==
  /\ lfa_pc = "ret"
  /\ lfa_address = 0
  /\ lfa_l = ZeroLine

\* read_action_from_file does not run
InitNoRead ==
  /\ file = <<>>
  /\ f = <<>>
  /\ rw = NUL
  /\ address = [hi |-> 0, lo |-> 0]
  /\ r_actions = <<>>
  /\ current_action = 0
  /\ nb_actions = 0
  /\ r_pc = "done"

\* the positions written, as history
Wrote(w, s, l, p) == IF l.index = s /\ p \in Ways THEN w \cup {p} ELSE w

\* the blocks whose line the write of l at position p of store cc replaces
\* (outside the set: with the effect stray)
Replaced(cc, l, p, stray) ==
  IF p \in Ways THEN {<<l.index, cc[l.index][p].tag>>}
  ELSE IF stray.kind = "line" THEN {<<stray.set, cc[stray.set][stray.way].tag>>}
  ELSE {}

\* what log keeps of an iteration
LogEntry(r, m) ==
  [hit |-> r.hit, l1 |-> r.l1, w1 |-> r.w1, c1 |-> r.c1, lookup2 |-> r.lookup2,
   l2 |-> r.l2, w2 |-> r.w2, misses |-> r.misses - m, fault |-> r.fault]

\* lines 196-211 on record i, with the readings e; dead2: a run side by
\* side with this one died
ReplayWith(e, dead2) ==
  \E r \in {execute_record(c, hits, misses, actions[i], prefetching,
                           e.t, e.g, e.u)} :
     /\ c' = r.c
     /\ hits' = r.hits
     /\ misses' = r.misses
     /\ now' = r.now
     /\ log' = Append(log, LogEntry(r, misses))
     /\ written' =
          [s \in Sets |->
             IF r.hit THEN written[s]
             ELSE Wrote(Wrote(written[s], s, r.l1, r.w1), s, r.l2, r.w2)]
     /\ kept' =
          IF r.hit THEN kept \cup {Block(r.l1)}
          ELSE (((kept \ Replaced(c, r.l1, r.w1, e.u[1])) \cup {Block(r.l1)})
                \ Replaced(r.c1, r.l2, r.w2, e.u[2]))
     /\ i' = IF r.fault THEN i ELSE i + 1
     /\ pc' = IF r.fault \/ dead2 THEN "fault" ELSE pc
     /\ UNCHANGED <<prefetching, actions, report>>

Init ==
  /\ prefetching \in BOOLEAN
  /\ actions \in {ActionsOf(seq) : seq \in Traces}
  /\ InitExec
  /\ InitNoPair
  /\ InitNoLfa
  /\ InitNoRead

\* lines 196-211: one record
Replay ==
  /\ pc = "loop"
  /\ actions[i].rw # NUL
  /\ \E e \in Readings(c, actions[i], prefetching, now) : ReplayWith(e, FALSE)
  /\ UNCHANGED <<pairVars, lfaVars, readVars>>

\* line 213: the loop has met the NUL record
Report ==
  /\ pc = "loop"
  /\ actions[i].rw = NUL
  /\ pc' = "done"
  /\ report' = <<hits, misses>>
  /\ UNCHANGED <<prefetching, actions, i, c, hits, misses, now, log, written, kept>>
  /\ UNCHANGED <<pairVars, lfaVars, readVars>>

Next == Replay \/ Report

vars == <<execVars, pairVars, lfaVars, readVars>>

Spec == Init /\ [][Next]_vars

\* ------------------------------------------------------------------------
\* Claims about execute_mem.
\* ------------------------------------------------------------------------
\* the address of record k (1-based, as in log) of the trace
AddressOf(k) == actions[k - 1].address

\* the set index and the block of record k
IndexOf(k) == Decomposed[AddressOf(k)].index

BlockOf(k) == <<Decomposed[AddressOf(k)].index, Decomposed[AddressOf(k)].tag>>

\* the first n records exist, have pairwise distinct addresses, and map to
\* one set
DistinctSameSet(n) ==
  /\ NbRecords(actions) >= n
  /\ \A j, k \in 1 .. n :
       /\ j # k => AddressOf(j) # AddressOf(k)
       /\ IndexOf(j) = IndexOf(k)

\* all records have pairwise distinct addresses that map to pairwise distinct
\* sets
DistinctSets ==
  \A j, k \in 1 .. NbRecords(actions) : j # k => IndexOf(j) # IndexOf(k)

\* C1: without prefetch, on a fresh store, the trace [A, A] ends with
\* hits = 1 and misses = 1, for every address A.
C1_SecondAccessHits ==
  (/\ pc = "done"
   /\ ~prefetching
   /\ NbRecords(actions) = 2
   /\ AddressOf(1) = AddressOf(2))
  => report = <<1, 1>>

\* C2: an access to an address that was accessed before, and whose line no
\* add_to_cache has written since, is a hit: hits grows by one and misses
\* does not change.
C2_RepeatedAccessHits ==
  [][(/\ pc = "loop"
      /\ i' = i + 1
      /\ BlockOf(i + 1) \in kept)
     => (hits' = hits + 1 /\ misses' = misses)]_vars

\* C3: without prefetch, on a fresh store, ASSOCIATIVITY + 1 distinct
\* addresses of one set all miss; the last of them is written over the line
\* of the first, the others stay resident, and a following access to the
\* first address misses.
C3_EvictsEarliestInserted ==
  (~prefetching /\ DistinctSameSet(ASSOCIATIVITY + 1))
  => /\ \A k \in 1 .. ASSOCIATIVITY + 1 : k <= Len(log) => ~log[k].hit
     /\ i = ASSOCIATIVITY + 1
          => /\ misses = ASSOCIATIVITY + 1
             /\ log[ASSOCIATIVITY + 1].w1 = log[1].w1
             /\ \A k \in 2 .. ASSOCIATIVITY + 1 :
                  in_cache(c, line_from_address(AddressOf(k), 0))
             /\ ~in_cache(c, line_from_address(AddressOf(1), 0))
     /\ (/\ Len(log) >= ASSOCIATIVITY + 2
         /\ AddressOf(ASSOCIATIVITY + 2) = AddressOf(1))
          => ~log[ASSOCIATIVITY + 2].hit

\* C4: without prefetch, on a fresh store, a trace of N distinct addresses
\* that map to N distinct sets ends with N misses and no hit.
C4_DistinctSetsAllMiss ==
  (pc = "done" /\ ~prefetching /\ DistinctSets)
  => report = <<0, NbRecords(actions)>>

\* C5: with prefetch, a record that misses and whose prefetch lookup of the
\* next block misses counts two misses, and a next record that accesses the
\* prefetched address is a hit.
C5_PrefetchedBlockHits ==
  \A k \in 1 .. Len(log) :
    (prefetching /\ ~log[k].hit /\ log[k].lookup2 = "absent")
    => /\ log[k].misses = 2
       /\ (/\ k + 1 <= Len(log)
           /\ AddressOf(k + 1) = AddressOf(k) + BLOCKS_SIZE)
            => log[k + 1].hit

\* C10: in every state a lookup of (index, tag) hits exactly when a line of
\* the set that add_to_cache wrote, and that still holds what was written,
\* carries the tag.
C10_HitIffInserted ==
  \A s \in Sets :
    \A tag \in 0 .. MaxTag + 1 :
      in_cache(c, [index |-> s, tag |-> tag])
      <=> \E w \in written[s] : c[s][w].tag = tag

\* ------------------------------------------------------------------------
\* Claims about the calls of add_to_cache. A step of the replay loop appends
\* one entry to log; the entry tells the calls the iteration made: the
\* first on a miss (store c before, log.c1 after), the second when the
\* prefetch lookup missed (store log.c1 before, c' after).
\* ------------------------------------------------------------------------
Iterated == pc = "loop" /\ Len(log') = Len(log) + 1

\* the positions written, at the second call of the iteration r
WrittenAfterFirst(r) == [s \in Sets |-> Wrote(written[s], s, r.l1, r.w1)]

\* p, the position written for l, is the lowest never-written position of
\* the set if there is one (wr: the positions written so far)
InsertsAtFirstFree(wr, l, p) ==
  LET free == Ways \ wr[l.index]
  IN /\ free # {} => (p \in free /\ \A w \in free : p <= w)
     /\ p \in wr[l.index] => free = {}

\* C11: add_to_cache on a set with a never-occupied line writes the lowest
\* such line; it overwrites a line holding an inserted block only when every
\* line of the set holds one.
C11_FirstNeverOccupied ==
  [][Iterated =>
       LET r == log'[Len(log')]
       IN /\ ~r.hit => InsertsAtFirstFree(written, r.l1, r.w1)
          /\ r.lookup2 = "absent"
               => InsertsAtFirstFree(WrittenAfterFirst(r), r.l2, r.w2)]_vars

\* on a set of cc all of whose lines were written, p is the lowest position
\* among those with the smallest last_access
EvictsOldest(cc, wr, l, p) ==
  wr[l.index] = Ways
  => /\ p \in Ways
     /\ \A w \in Ways :
          /\ cc[l.index][p].last_access <= cc[l.index][w].last_access
          /\ cc[l.index][w].last_access = cc[l.index][p].last_access => p <= w

\* C12: add_to_cache on a set all of whose lines hold inserted blocks
\* overwrites the line with the smallest last_access, the lowest position
\* among equals.
C12_EvictsSmallestLastAccess ==
  [][Iterated =>
       LET r == log'[Len(log')]
       IN /\ ~r.hit => EvictsOldest(c, written, r.l1, r.w1)
          /\ r.lookup2 = "absent"
               => EvictsOldest(r.c1, WrittenAfterFirst(r), r.l2, r.w2)]_vars

\* when the scan of add_to_cache finds no empty line in the set of cc, the
\* position p written is in the set and the lookup of l in the store after
\* the call hits
VictimAssigned(cc, l, p, after) ==
  (\A w \in Ways : cc[l.index][w].tag # 0)
  => (p \in Ways /\ in_cache(after, l))

\* C13: whenever add_to_cache reaches its eviction step, `oldest` holds a
\* position of the set, also when no line is older than the current clock
\* value: the insert succeeds and a lookup of the inserted line hits.
C13_VictimAlwaysAssigned ==
  [][Iterated =>
       LET r == log'[Len(log')]
       IN /\ ~r.hit => VictimAssigned(c, r.l1, r.w1, r.c1)
          /\ r.lookup2 = "absent" => VictimAssigned(r.c1, r.l2, r.w2, c')]_vars

\* C14: in every state of the replay loop no set holds two lines, written by
\* add_to_cache, with the same tag.
C14_NoDuplicateTags ==
  \A s \in Sets :
    \A w1, w2 \in written[s] :
      w1 # w2 => c[s][w1].tag # c[s][w2].tag

\* C15: a record whose lookup hits adds 1 to hits and leaves misses and
\* every line of the store as they were: no line is refreshed, nothing is
\* inserted, no prefetch is looked up.
C15_HitChangesNothing ==
  [][(Iterated /\ log'[Len(log')].hit)
     => /\ hits' = hits + 1
        /\ misses' = misses
        /\ c' = c
        /\ log'[Len(log')].w1 = NoPos
        /\ log'[Len(log')].lookup2 = "none"
        /\ log'[Len(log')].w2 = NoPos]_vars

\* C15 witness: with PREFETCHING, the last record hit on a line that
\* add_to_cache wrote at an earlier clock value
C15_Witness ==
  /\ prefetching
  /\ Len(log) > 0
  /\ log[Len(log)].hit
  /\ \E w \in written[log[Len(log)].l1.index] :
       /\ c[log[Len(log)].l1.index][w].tag = log[Len(log)].l1.tag
       /\ c[log[Len(log)].l1.index][w].last_access < log[Len(log)].l1.last_access

\* the lines of the store that differ between cc and after
Changed(cc, after) == {sw \in Sets \X Ways : cc[sw[1]][sw[2]] # after[sw[1]][sw[2]]}

\* the block of the address a
BlockAt(a) == <<Decomposed[a].index, Decomposed[a].tag>>

\* C16: with PREFETCHING, a record that misses on A while a line written by
\* add_to_cache holds the block of A + BLOCKS_SIZE after A's insert makes no
\* second insert and counts one miss: exactly one line of the store
\* changes. And the lookups and inserts of a record are for the blocks of A
\* and of A + BLOCKS_SIZE only.
C16_PrefetchPresentFrame ==
  [][Iterated =>
       LET r == log'[Len(log')]
       IN /\ (/\ prefetching
              /\ ~r.hit
              /\ \E w \in WrittenAfterFirst(r)[r.l2.index] :
                   r.c1[r.l2.index][w].tag = BlockAt(AddressOf(i + 1) + BLOCKS_SIZE)[2]
              /\ r.l2.index = BlockAt(AddressOf(i + 1) + BLOCKS_SIZE)[1])
             => /\ r.w2 = NoPos
                /\ misses' = misses + 1
                /\ hits' = hits
                /\ Cardinality(Changed(c, c')) = 1
          /\ Block(r.l1) = BlockAt(AddressOf(i + 1))
          /\ r.lookup2 # "none"
               => Block(r.l2) = BlockAt(AddressOf(i + 1) + BLOCKS_SIZE)]_vars

\* C17: every set index used on the store, for the trace address and for
\* the prefetch address, is in 0 .. NB_BLOCKS - 1, and every position
\* add_to_cache writes is in 0 .. ASSOCIATIVITY - 1.
C17_AccessesInBounds ==
  \A k \in 1 .. Len(log) :
    /\ log[k].l1.index \in Sets
    /\ log[k].lookup2 # "none" => log[k].l2.index \in Sets
    /\ ~log[k].hit => log[k].w1 \in Ways
    /\ log[k].lookup2 = "absent" => log[k].w2 \in Ways

\* The replay loop under its scheduling: the process runs until it prints
\* the report or dies. The traces are those of the blocks of set 0 and of
\* the block that follows the first of them, of at most three records.
InitLive ==
  /\ prefetching \in BOOLEAN
  /\ actions \in
       {ActionsOf(seq) :
          seq \in UNION {[1 .. n -> {r \in Records :
                                       \/ Decomposed[r.address].index = 0
                                       \/ r.address = BLOCKS_SIZE}] :
                           n \in 0 .. MaxLen - 1}}
  /\ InitExec
  /\ InitNoPair
  /\ InitNoLfa
  /\ InitNoRead

SpecLive == InitLive /\ [][Next]_vars /\ WF_vars(Next)

\* C18: the replay loop takes the records once each, in trace order, and
\* ends by printing the counters: (0, 0) for the empty trace.
C18_OnePassTerminates ==
  /\ [][(Iterated /\ pc' = "loop")
        => (i' = i + 1 /\ Block(log'[Len(log')].l1) = BlockOf(i + 1))]_vars
  /\ [](pc = "done" => /\ i = NbRecords(actions)
                       /\ Len(log) = NbRecords(actions)
                       /\ report = <<hits, misses>>
                       /\ NbRecords(actions) = 0 => report = <<0, 0>>)
  /\ <>(pc = "done")

\* C19: after i records, hits + misses = i without PREFETCHING and
\* i <= hits + misses <= 2i with it; no step lowers a counter; a record
\* raises exactly one of them: hits by 1, or misses by 1 or 2, by 2 only
\* with PREFETCHING on a record whose own lookup missed.
C19_CounterBounds ==
  /\ [](/\ ~prefetching => hits + misses = i
        /\ prefetching => (i <= hits + misses /\ hits + misses <= 2 * i))
  /\ [][hits' >= hits /\ misses' >= misses]_vars
  /\ [][(Iterated /\ i' = i + 1)
        => \/ hits' = hits + 1 /\ misses' = misses
           \/ /\ hits' = hits
              /\ misses' \in {misses + 1, misses + 2}
              /\ misses' = misses + 2
                   => (prefetching /\ ~log'[Len(log')].hit)]_vars

\* C19 witness: with PREFETCHING, hits and misses both grew and the sum is
\* strictly between i and 2i
C19_Witness ==
  /\ prefetching
  /\ hits > 0
  /\ i < hits + misses
  /\ hits + misses < 2 * i

\* the call add_to_cache(cc, l), which left the store after, changed one
\* line, of the set l.index
ChangesOneLine(cc, l, after) ==
  /\ Cardinality(Changed(cc, after)) = 1
  /\ \A sw \in Changed(cc, after) : sw[1] = l.index

\* C20: each call of add_to_cache(c, l) changes exactly one line, in the set
\* l.index, and no other line of the store; the store keeps its NB_BLOCKS
\* sets of ASSOCIATIVITY lines.
C20_InsertChangesOneLine ==
  /\ [][Iterated =>
          LET r == log'[Len(log')]
          IN /\ ~r.hit => ChangesOneLine(c, r.l1, r.c1)
             /\ r.lookup2 = "absent" => ChangesOneLine(r.c1, r.l2, c')]_vars
  /\ [](DOMAIN c = Sets /\ \A s \in Sets : DOMAIN c[s] = Ways)

\* ------------------------------------------------------------------------
\* line_from_address on its own: one call on any address of the model.
\* ------------------------------------------------------------------------
\* execute_mem does not run
InitNoExec ==
  /\ prefetching = FALSE
  /\ actions = ActionsOf(<<>>)
  /\ i = 0
  /\ c = FreshCache
  /\ hits = 0
  /\ misses = 0
  /\ now = 1
  /\ pc = "done"
  /\ report = <<>>
  /\ log = <<>>
  /\ written = [s \in Sets |-> {}]
  /\ kept = {}

InitDecompose ==
  /\ lfa_pc = "call"
  /\ lfa_address \in AddressRange
  /\ lfa_l = ZeroLine
  /\ InitNoExec
  /\ InitNoPair
  /\ InitNoRead

\* lines 117-129
Decompose ==
  /\ lfa_pc = "call"
  /\ \E t \in now .. MaxClock :
       /\ lfa_l' = line_from_address(lfa_address, t)
       /\ now' = t
  /\ lfa_pc' = "ret"
  /\ UNCHANGED <<prefetching, actions, i, c, hits, misses, pc, report, log,
                 written, kept, lfa_address>>
  /\ UNCHANGED <<pairVars, readVars>>

NextDecompose == Decompose

SpecDecompose == InitDecompose /\ [][NextDecompose]_vars

\* C8: the offset, index and tag line_from_address computes recombine to the
\* address, (tag << (offset_bits + index_bits)) | (index << offset_bits) |
\* offset = address, with offset < block_size and index < num_sets.
C8_RoundTrip ==
  lfa_pc = "ret"
  => /\ BitOr(BitOr(ShiftL(lfa_l.tag, BLOCKS_SIZE_N + NB_BLOCKS_N),
                    ShiftL(lfa_l.index, BLOCKS_SIZE_N)),
              lfa_l.offset) = lfa_address
     /\ lfa_l.offset < BLOCKS_SIZE
     /\ lfa_l.index < NB_BLOCKS

\* C8 witness: a call returned a line whose three fields are all non-zero
C8_Witness ==
  /\ lfa_pc = "ret"
  /\ lfa_l.tag > 1
  /\ lfa_l.index > 0
  /\ lfa_l.offset > 0

\* ------------------------------------------------------------------------
\* Two runs of execute_mem side by side, record by record, on traces with
\* the same addresses. In SpecLetters the traces differ in their letters
\* and both runs read the same clock values and the same stack; in
\* SpecClocks the traces are equal and each run reads its own.
\* ------------------------------------------------------------------------
\* the largest number of records of the traces of the two runs
MaxPairLen == 3

\* the addresses of the two runs: the blocks of set 0 and the block that
\* follows the first of them
PairAddresses ==
  {BlockAddress(tag, 0) : tag \in 0 .. MaxTag} \cup {BlockAddress(0, 1)}

PairTraces ==
  UNION {[1 .. n -> {r \in Records : r.address \in PairAddresses}] :
           n \in 0 .. MaxPairLen}

\* the traces with the addresses of seq and any letters
Relettered(seq) ==
  {s2 \in [1 .. Len(seq) -> [rw : {"R", "W"}, address : PairAddresses]] :
     \A k \in 1 .. Len(seq) : s2[k].address = seq[k].address}

\* lines 180-194 of the second run
InitExec2 ==
  /\ c2 = FreshCache
  /\ hits2 = 0
  /\ misses2 = 0
  /\ now2 = 1
  /\ report2 = <<>>
  /\ log2 = <<>>

InitLetters ==
  /\ prefetching \in BOOLEAN
  /\ \E seq \in PairTraces :
       /\ actions = ActionsOf(seq)
       /\ actions2 \in {ActionsOf(s2) : s2 \in Relettered(seq)}
  /\ InitExec
  /\ InitExec2
  /\ InitNoLfa
  /\ InitNoRead

InitClocks ==
  /\ prefetching \in BOOLEAN
  /\ actions \in {ActionsOf(seq) : seq \in PairTraces}
  /\ actions2 = actions
  /\ InitExec
  /\ InitExec2
  /\ InitNoLfa
  /\ InitNoRead

\* the second run dies in record i, with the readings e
Dies2(e) ==
  execute_record(c2, hits2, misses2, actions2[i], prefetching, e.t, e.g, e.u).fault

\* lines 196-211 on record i of the second run, with the readings e
ReplayWith2(e) ==
  \E r \in {execute_record(c2, hits2, misses2, actions2[i], prefetching,
                           e.t, e.g, e.u)} :
     /\ c2' = r.c
     /\ hits2' = r.hits
     /\ misses2' = r.misses
     /\ now2' = r.now
     /\ log2' = Append(log2, LogEntry(r, misses2))
     /\ UNCHANGED <<actions2, report2>>

\* lines 196-211 in both runs, which read the same values
ReplayLetters ==
  /\ pc = "loop"
  /\ actions[i].rw # NUL
  /\ actions2[i].rw # NUL
  /\ \E e \in Readings(c, actions[i], prefetching, now) :
       /\ e \in Readings(c2, actions2[i], prefetching, now2)
       /\ ReplayWith(e, Dies2(e))
       /\ ReplayWith2(e)
  /\ UNCHANGED <<lfaVars, readVars>>

\* lines 196-211 in both runs, each with its own readings
ReplayClocks ==
  /\ pc = "loop"
  /\ actions[i].rw # NUL
  /\ actions2[i].rw # NUL
  /\ \E e \in Readings(c, actions[i], prefetching, now) :
       \E e2 \in Readings(c2, actions2[i], prefetching, now2) :
         /\ ReplayWith(e, Dies2(e2))
         /\ ReplayWith2(e2)
  /\ UNCHANGED <<lfaVars, readVars>>

\* line 213 in both runs
ReportPair ==
  /\ pc = "loop"
  /\ actions[i].rw = NUL
  /\ actions2[i].rw = NUL
  /\ pc' = "done"
  /\ report' = <<hits, misses>>
  /\ report2' = <<hits2, misses2>>
  /\ UNCHANGED <<prefetching, actions, i, c, hits, misses, now, log, written, kept>>
  /\ UNCHANGED <<actions2, c2, hits2, misses2, now2, log2>>
  /\ UNCHANGED <<lfaVars, readVars>>

NextLetters == ReplayLetters \/ ReportPair

SpecLetters == InitLetters /\ [][NextLetters]_vars

NextClocks == ReplayClocks \/ ReportPair

SpecClocks == InitClocks /\ [][NextClocks]_vars

\* C6: two runs on the same trace end with the same counters and the same
\* store whatever the clock returns, and no two lines that add_to_cache
\* wrote into one set carry the same last_access.
C6_ClockIndependent ==
  /\ pc = "done" => (report = report2 /\ c = c2)
  /\ \A s \in Sets :
       \A w1, w2 \in written[s] :
         w1 # w2 => c[s][w1].last_access # c[s][w2].last_access

\* C7: two traces with the same addresses and any letters R and W have the
\* same outcome at every record and the same counters.
C7_LetterIgnored ==
  /\ hits = hits2
  /\ misses = misses2
  /\ Len(log) = Len(log2)
  /\ \A k \in 1 .. Len(log) : log[k].hit = log2[k].hit
  /\ pc = "done" => report = report2

\* C7 witness: two finished runs with a hit, whose traces differ in the
\* letter of a record that missed
C7_Witness ==
  /\ pc = "done"
  /\ hits > 0
  /\ \E k \in 1 .. Len(log) : actions[k - 1].rw # actions2[k - 1].rw /\ ~log[k].hit

\* ------------------------------------------------------------------------
\* read_action_from_file. The file is a sequence of characters; fscanf is
\* modelled on it directive by directive.
\* ------------------------------------------------------------------------
\* what fscanf returns at end of input, before any conversion
EOF == 0 - 1

\* the characters isspace accepts, among those of the files of the model
Whitespace == {" ", "\n"}

\* the characters of a hexadecimal number, by value
HexChars ==
  <<"0", "1", "2", "3", "4", "5", "6", "7", "8", "9", "a", "b", "c", "d", "e", "f">>

IsHex(ch) == \E v \in 1 .. 16 : HexChars[v] = ch

HexValue(ch) == (CHOOSE v \in 1 .. 16 : HexChars[v] = ch) - 1

\* white space in the format: any amount of white space in the input
RECURSIVE SkipSpace(_)
SkipSpace(s) ==
  IF s # <<>> /\ Head(s) \in Whitespace THEN SkipSpace(Tail(s)) ELSE s

\* the number of leading hexadecimal digits of s, at most width
RECURSIVE HexLen(_, _)
HexLen(s, width) ==
  IF width = 0 \/ s = <<>> \/ ~IsHex(Head(s)) THEN 0
  ELSE 1 + HexLen(Tail(s), width - 1)

\* the value of the digits of s
RECURSIVE HexNumber(_)
HexNumber(s) ==
  IF s = <<>> THEN 0
  ELSE 16 * HexNumber(SubSeq(s, 1, Len(s) - 1)) + HexValue(s[Len(s)])

\* the field width of %12x (line 100)
HexWidth == 12

\* the growth step and first size of the array (lines 97, 102)
NbActionsStep == 40

\* fscanf(f, " %c: 0x%12x", &rw, &address) on the stream s (line 100).
\* The result: ret, what is returned; rw and address, the locals after the
\* call; f, the stream after it. A directive that fails leaves the
\* character it met in the stream. %x stores an unsigned int through the
\* pointer to the unsigned long address: the low half is assigned, the high
\* half keeps what it held. (The files of the model hold numbers of at most
\* three digits, without sign or 0x inside the field.)
fscanf(s, old_rw, old_address) ==
  LET s1 == SkipSpace(s)                       \* " "
  IN IF s1 = <<>>
     THEN [ret |-> EOF, rw |-> old_rw, address |-> old_address, f |-> s1]
     ELSE LET s2 == Tail(s1)                   \* "%c"
          IN IF s2 = <<>> \/ Head(s2) # ":"    \* ":"
             THEN [ret |-> 1, rw |-> Head(s1), address |-> old_address, f |-> s2]
             ELSE LET s3 == SkipSpace(Tail(s2))    \* " "
                  IN IF s3 = <<>> \/ Head(s3) # "0"    \* "0"
                     THEN [ret |-> 1, rw |-> Head(s1), address |-> old_address,
                           f |-> s3]
                     ELSE LET s4 == Tail(s3)
                          IN IF s4 = <<>> \/ Head(s4) # "x"    \* "x"
                             THEN [ret |-> 1, rw |-> Head(s1),
                                   address |-> old_address, f |-> s4]
                             ELSE LET s5 == SkipSpace(Tail(s4))    \* "%12x"
                                      n == HexLen(s5, HexWidth)
                                  IN IF n = 0
                                     THEN [ret |-> 1, rw |-> Head(s1),
                                           address |-> old_address, f |-> s5]
                                     ELSE [ret |-> 2, rw |-> Head(s1),
                                           address |->
                                             [hi |-> old_address.hi,
                                              lo |-> HexNumber(SubSeq(s5, 1, n))],
                                           f |-> SubSeq(s5, n + 1, Len(s5))]

\* the lines of the files of the model: "R: 0x0", "W: 0x80", and three
\* that do not match: "#", "R 0x1", "W: 8"
FileLines ==
  {<<"R", ":", " ", "0", "x", "0", "\n">>,
   <<"W", ":", " ", "0", "x", "8", "0", "\n">>,
   <<"#", "\n">>,
   <<"R", " ", "0", "x", "1", "\n">>,
   <<"W", ":", " ", "8", "\n">>}

\* the largest number of lines of a file
MaxLines == 3

Files == UNION {[1 .. n -> FileLines] : n \in 0 .. MaxLines}

RECURSIVE Characters(_)
Characters(lines) ==
  IF lines = <<>> THEN <<>> ELSE Head(lines) \o Characters(Tail(lines))

\* lines 91-99: the file is open; rw and address are not initialised (rw is
\* assigned before it is read; address may be read first)
InitRead ==
  /\ file \in Files
  /\ f = Characters(file)
  /\ rw = NUL
  /\ address \in [hi : 0 .. 1, lo : 0 .. 1]
  /\ r_actions = <<>>
  /\ current_action = 0
  /\ nb_actions = NbActionsStep
  /\ r_pc = "scan"
  /\ InitNoExec
  /\ InitNoPair
  /\ InitNoLfa

\* lines 100-108: fscanf does not return EOF; the record is stored
ReadRecord ==
  /\ r_pc = "scan"
  /\ fscanf(f, rw, address).ret # EOF
  /\ f' = fscanf(f, rw, address).f
  /\ rw' = fscanf(f, rw, address).rw
  /\ address' = fscanf(f, rw, address).address
  /\ nb_actions' = IF current_action + 2 > nb_actions
                   THEN nb_actions + NbActionsStep
                   ELSE nb_actions
  /\ r_actions' = Append(r_actions, [rw |-> rw', address |-> address'])
  /\ current_action' = current_action + 1
  /\ UNCHANGED <<file, r_pc>>
  /\ UNCHANGED <<execVars, pairVars, lfaVars>>

\* lines 100, 110-114: fscanf returns EOF; the NUL record ends the array
ReadReturn ==
  /\ r_pc = "scan"
  /\ fscanf(f, rw, address).ret = EOF
  /\ f' = fscanf(f, rw, address).f
  /\ r_actions' = Append(r_actions, [rw |-> NUL, address |-> address])
  /\ r_pc' = "done"
  /\ UNCHANGED <<file, rw, address, current_action, nb_actions>>
  /\ UNCHANGED <<execVars, pairVars, lfaVars>>

NextRead == ReadRecord \/ ReadReturn

SpecRead == InitRead /\ [][NextRead]_vars

\* a line of the form R: 0x<hex> or W: 0x<hex>
WellFormed(line) ==
  /\ Len(line) >= 7
  /\ line[1] \in {"R", "W"}
  /\ line[2] = ":"
  /\ line[3] = " "
  /\ line[4] = "0"
  /\ line[5] = "x"
  /\ \A k \in 6 .. Len(line) - 1 : IsHex(line[k])
  /\ line[Len(line)] = "\n"

\* the record a well-formed line stands for
RecordOf(line) ==
  [rw |-> line[1],
   address |-> [hi |-> 0, lo |-> HexNumber(SubSeq(line, 6, Len(line) - 1))]]

\* the records of the well-formed lines before the first other line
RECURSIVE WellFormedPrefix(_)
WellFormedPrefix(lines) ==
  IF lines = <<>> \/ ~WellFormed(Head(lines)) THEN <<>>
  ELSE <<RecordOf(Head(lines))>> \o WellFormedPrefix(Tail(lines))

\* the records handed to execute_mem: those before the NUL record
Delivered == SubSeq(r_actions, 1, Len(r_actions) - 1)

\* C9: the reader stops at the first line that is not R: 0x<hex> or
\* W: 0x<hex>, or at end of input: the records delivered are exactly those
\* of the well-formed lines before the first malformed line.
C9_StopsAtMalformedLine ==
  r_pc = "done" => Delivered = WellFormedPrefix(file)

====
